---- MODULE Spec2Model ----
(***************************************************************************)
(* The telemetry session of the Vehicle Safety Dashboard                   *)
(* (client/components/Dashboard.tsx): one React component that owns an     *)
(* EventSource subscription, the current reading, a capped and debounced   *)
(* history, and the flags the header derives the connection status from.   *)
(* Beside it, the earlier Dashboard component that fetches the reading     *)
(* once instead of subscribing to a stream.                                *)
(*                                                                         *)
(* Time is Date.now() in milliseconds.  A JavaScript value is a record     *)
(* [t, n, s, b]: its type tag, and its number, string (a sequence of       *)
(* one-character strings) or boolean.  A DashboardData object is a record  *)
(* of the five tracked keys; an absent key holds Undefined.                *)
(***************************************************************************)
EXTENDS Integers, Sequences, FiniteSets, TLC

VARIABLES
    currentData,        \* useState<DashboardData | null>: <<>> is null, <<d>> an object
    history,            \* useState<HistoricalEntry[]>
    loading,            \* useState(true)
    error,              \* useState<string | null>
    lastFetched,        \* useState("Never")
    useMockData,        \* useState(false)
    lastHistoryAddRef,  \* useRef<number>(0)
    isMounted,          \* the effect's closure flag
    es,                 \* the EventSource: "none", "connecting", "open", "closed"
    now,                \* the wall clock, Date.now()
    fromMock,           \* history bookkeeping: for each entry, whether loadData got isMock
    appendTimes,        \* history bookkeeping: the `now` of every append so far
    lastRaw,            \* bookkeeping: the event.data onmessage handled last
    probe,              \* the speed handed to the Vehicle Speed card
    shown,              \* the status the Vehicle Speed card was given
    legacy,             \* the fetch-based Dashboard: its useState values and the fetch's position
    shownLegacy         \* the status its Vehicle Speed card was given

vars == <<currentData, history, loading, error, lastFetched, useMockData,
          lastHistoryAddRef, isMounted, es, now, fromMock, appendTimes,
          lastRaw, probe, shown, legacy, shownLegacy>>

session == <<currentData, history, loading, error, lastFetched, useMockData,
             lastHistoryAddRef, isMounted, es, now, fromMock, appendTimes,
             lastRaw>>

-----------------------------------------------------------------------------
(* Program constants *)

MAX_HISTORY_ENTRIES == 50
HISTORY_ADD_INTERVAL == 3000
CONNECTION_TIMEOUT == 5000      \* README, Timing Parameters

(* Bounds of the model *)

StartClock == 5000      \* Date.now() when the component mounts
MaxElapsed == 5500      \* the clock stops advancing this long after the mount
RenderLag == 1          \* most ms between loadData's Date.now() and the updater's
SteadyTicks == 53       \* ticks of the steady stream
MaxSpeed == 200         \* largest speed handed to the Vehicle Speed card

-----------------------------------------------------------------------------
(* JavaScript values *)

Undefined == [t |-> "undefined", n |-> 0, s |-> <<>>, b |-> FALSE]
Null == [t |-> "null", n |-> 0, s |-> <<>>, b |-> FALSE]
Num(n) == [t |-> "number", n |-> n, s |-> <<>>, b |-> FALSE]
Str(s) == [t |-> "string", n |-> 0, s |-> s, b |-> FALSE]
Bool(b) == [t |-> "boolean", n |-> 0, s |-> <<>>, b |-> b]

\* value === null || value === undefined
IsNullish(v) == v.t \in {"null", "undefined"}

\* interface DashboardData, the tracked keys
EmptyObject ==
    [eyeDrowsy |-> Undefined, steerInactive |-> Undefined, rpm |-> Undefined,
     rolloverDetected |-> Undefined, speed |-> Undefined]

MOCK_DATA ==
    [EmptyObject EXCEPT !.eyeDrowsy = Bool(FALSE), !.steerInactive = Bool(FALSE),
                        !.rpm = Str(<<"2", "5", "0", "0">>),
                        !.rolloverDetected = Bool(FALSE)]

-----------------------------------------------------------------------------
(* rpmToKmh *)

Digits == {"0", "1", "2", "3", "4", "5", "6", "7", "8", "9"}

DigitVal(c) ==
    CASE c = "0" -> 0 [] c = "1" -> 1 [] c = "2" -> 2 [] c = "3" -> 3
      [] c = "4" -> 4 [] c = "5" -> 5 [] c = "6" -> 6 [] c = "7" -> 7
      [] c = "8" -> 8 [] c = "9" -> 9

RECURSIVE SkipSpaces(_)
SkipSpaces(s) ==
    IF s # <<>> /\ Head(s) = " " THEN SkipSpaces(Tail(s)) ELSE s

\* the longest prefix of s made of digits
RECURSIVE DigitPrefix(_)
DigitPrefix(s) ==
    IF s # <<>> /\ Head(s) \in Digits
    THEN <<Head(s)>> \o DigitPrefix(Tail(s))
    ELSE <<>>

RECURSIVE DecimalValue(_, _)
DecimalValue(s, acc) ==
    IF s = <<>> THEN acc ELSE DecimalValue(Tail(s), 10 * acc + DigitVal(Head(s)))

\* parseFloat on strings without a fraction or an exponent: leading white
\* space is skipped, an optional sign and the longest run of digits are
\* read, whatever follows is ignored; NaN when no digit is read.
NaN == [nan |-> TRUE, v |-> 0]
parseFloat(s) ==
    LET t == SkipSpaces(s)
        neg == t # <<>> /\ Head(t) = "-"
        u == IF t # <<>> /\ Head(t) \in {"-", "+"} THEN Tail(t) ELSE t
        d == DigitPrefix(u)
    IN IF d = <<>> THEN NaN
       ELSE [nan |-> FALSE, v |-> IF neg THEN 0 - DecimalValue(d, 0) ELSE DecimalValue(d, 0)]

\* Math.round(n * 0.0158) for an integer n: the double n * 0.0158 lies on the
\* far side of every tie (2500 * 0.0158 is 39.50000000000001), so ties round
\* away from zero (exact for |n| <= 130000).
MathRoundKmh(n) ==
    IF n >= 0 THEN (n * 158 + 5000) \div 10000
    ELSE 0 - (((0 - n) * 158 + 5000) \div 10000)

rpmToKmhNoRound(rpm) ==
    IF IsNullish(rpm) THEN Null
    ELSE LET rpmNum == IF rpm.t = "string" THEN parseFloat(rpm.s)
                       ELSE [nan |-> FALSE, v |-> rpm.n]
         IN IF rpmNum.nan THEN Null ELSE Num((rpmNum.v * 158) \div 10000)

rpmToKmh(rpm) ==
    IF IsNullish(rpm) THEN Null
    ELSE LET rpmNum == IF rpm.t = "string" THEN parseFloat(rpm.s)
                       ELSE [nan |-> FALSE, v |-> rpm.n]
         IN IF rpmNum.nan THEN Null ELSE Num(MathRoundKmh(rpmNum.v))

-----------------------------------------------------------------------------
(* The messages the stream delivers *)

P_empty == EmptyObject
P_nulls ==
    [eyeDrowsy |-> Null, steerInactive |-> Null, rpm |-> Null,
     rolloverDetected |-> Null, speed |-> Null]
P_rpmString == [EmptyObject EXCEPT !.rpm = Str(<<"2", "5", "0", "0">>)]
P_rpmStringSpeed == [P_rpmString EXCEPT !.speed = Num(125)]
P_speedOnly == [EmptyObject EXCEPT !.speed = Num(125)]
P_fast == [EmptyObject EXCEPT !.rpm = Num(7658), !.eyeDrowsy = Bool(TRUE)]
P_rpmSuffix == [EmptyObject EXCEPT !.rpm = Str(<<"2", "5", "0", "0", "r", "p", "m">>)]
P_rpmWord == [EmptyObject EXCEPT !.rpm = Str(<<"a", "b", "c">>), !.steerInactive = Bool(TRUE)]

Payloads ==
    {P_empty, P_nulls, P_rpmString, P_rpmStringSpeed, P_speedOnly, P_fast,
     P_rpmSuffix, P_rpmWord}

\* event.data: text that is not JSON, the JSON text null, or a JSON object
Malformed == [kind |-> "malformed", obj |-> EmptyObject]
JsonNull == [kind |-> "null", obj |-> EmptyObject]
JsonObject(p) == [kind |-> "object", obj |-> p]
NoMessage == [kind |-> "none", obj |-> EmptyObject]

RawMessages == {Malformed, JsonNull} \cup {JsonObject(p) : p \in Payloads}

SteadyPayload == P_fast
Steps == {2500, 2999, 3000}

-----------------------------------------------------------------------------
(* The component *)

NoError == "null"
ConnectionLost == "Connection lost to real-time data stream"
ConnectFailed == "Failed to connect to API"

Never == [set |-> FALSE, sec |-> 0]
toLocaleTimeString(t) == [set |-> TRUE, sec |-> (t \div 1000) % 86400]

HistoricalEntry(ts, data) == [timestamp |-> ts, data |-> data]

addToHistoryNoShift(prev, data, ts) ==
    Append(prev, HistoricalEntry(ts, data))

\* pop() in place of shift()
addToHistoryPop(prev, data, ts) ==
    LET updated == Append(prev, HistoricalEntry(ts, data))
    IN IF Len(updated) > MAX_HISTORY_ENTRIES
       THEN SubSeq(updated, 1, MAX_HISTORY_ENTRIES) ELSE updated

\* the updater handed to setHistory; ts is its Date.now()
addToHistory(prev, data, ts) ==
    LET updated == Append(prev, HistoricalEntry(ts, data))
    IN IF Len(updated) > MAX_HISTORY_ENTRIES THEN Tail(updated) ELSE updated

\* the same window over the bookkeeping of where each entry came from
trackOrigin(prev, isMock) ==
    LET updated == Append(prev, isMock)
    IN IF Len(updated) > MAX_HISTORY_ENTRIES THEN Tail(updated) ELSE updated

\* the interval taken for seconds
intervalElapsedSeconds(t, last) == t - last >= HISTORY_ADD_INTERVAL \div 1000

\* now - lastHistoryAddRef.current >= HISTORY_ADD_INTERVAL
intervalElapsed(t, last) == t - last >= HISTORY_ADD_INTERVAL

withSpeedFromWire(data) ==
    IF IsNullish(data.speed) THEN [data EXCEPT !.speed = rpmToKmh(data.rpm)] ELSE data

\* { ...data, speed: calculatedSpeed }
withSpeed(data) == [data EXCEPT !.speed = rpmToKmh(data.rpm)]

\* setUseMockData(!isMock)
loadDataFlagInverted(data, isMock, lag) ==
    LET dataWithSpeed == withSpeed(data)
    IN /\ currentData' = <<dataWithSpeed>>
       /\ error' = NoError
       /\ lastFetched' = toLocaleTimeString(now)
       /\ useMockData' = ~isMock
       /\ IF intervalElapsed(now, lastHistoryAddRef)
          THEN /\ history' = addToHistory(history, dataWithSpeed, now + lag)
               /\ fromMock' = trackOrigin(fromMock, isMock)
               /\ appendTimes' = Append(appendTimes, now)
               /\ lastHistoryAddRef' = now
               /\ now' = now + lag
          ELSE /\ lag = 0
               /\ UNCHANGED <<history, fromMock, appendTimes, lastHistoryAddRef, now>>

\* loadData(data, isMock); the history updater runs lag ms later
loadData(data, isMock, lag) ==
    LET dataWithSpeed == withSpeed(data)
    IN /\ currentData' = <<dataWithSpeed>>
       /\ error' = NoError
       /\ lastFetched' = toLocaleTimeString(now)
       /\ useMockData' = isMock
       /\ IF intervalElapsed(now, lastHistoryAddRef)
          THEN /\ history' = addToHistory(history, dataWithSpeed, now + lag)
               /\ fromMock' = trackOrigin(fromMock, isMock)
               /\ appendTimes' = Append(appendTimes, now)
               /\ lastHistoryAddRef' = now
               /\ now' = now + lag
          ELSE /\ lag = 0
               /\ UNCHANGED <<history, fromMock, appendTimes, lastHistoryAddRef, now>>

\* useRef<number>(Date.now())
InitSessionRefNow ==
    /\ currentData = <<>>
    /\ history = <<>>
    /\ loading = TRUE
    /\ error = NoError
    /\ lastFetched = Never
    /\ useMockData = FALSE
    /\ lastHistoryAddRef = StartClock
    /\ isMounted = FALSE
    /\ es = "none"
    /\ now = StartClock
    /\ fromMock = <<>>
    /\ appendTimes = <<>>
    /\ lastRaw = NoMessage

InitSession ==
    /\ currentData = <<>>
    /\ history = <<>>
    /\ loading = TRUE
    /\ error = NoError
    /\ lastFetched = Never
    /\ useMockData = FALSE
    /\ lastHistoryAddRef = 0
    /\ isMounted = FALSE
    /\ es = "none"
    /\ now = StartClock
    /\ fromMock = <<>>
    /\ appendTimes = <<>>
    /\ lastRaw = NoMessage

\* the fetch-based Dashboard after its useState calls, the fetch under way
InitLegacy ==
    legacy = [currentData |-> <<>>, history |-> <<>>, loading |-> TRUE,
              error |-> NoError, lastFetched |-> Never, pc |-> "fetching"]

Init ==
    /\ InitSession
    /\ InitLegacy
    /\ probe = Null
    /\ shown = "none"
    /\ shownLegacy = "none"

\* useEffect: connectSSE() constructs the EventSource and installs the handlers
Mount ==
    /\ es = "none" /\ ~isMounted /\ loading
    /\ isMounted' = TRUE
    /\ es' = "connecting"
    /\ UNCHANGED <<currentData, history, loading, error, lastFetched, useMockData,
                   lastHistoryAddRef, now, fromMock, appendTimes, lastRaw, probe, shown, legacy, shownLegacy>>

\* connectSSE's catch: new EventSource(API_URL) threw
ConnectFail ==
    /\ es = "none" /\ ~isMounted /\ loading
    /\ isMounted' = TRUE
    /\ error' = ConnectFailed
    /\ loading' = FALSE
    /\ UNCHANGED <<currentData, history, lastFetched, useMockData, es,
                   lastHistoryAddRef, now, fromMock, appendTimes, lastRaw, probe, shown, legacy, shownLegacy>>

\* eventSource.onopen
OnOpen ==
    /\ es = "connecting"
    /\ es' = "open"
    /\ IF isMounted
       THEN loading' = FALSE /\ error' = NoError
       ELSE UNCHANGED <<loading, error>>
    /\ UNCHANGED <<currentData, history, lastFetched, useMockData, isMounted,
                   lastHistoryAddRef, now, fromMock, appendTimes, lastRaw, probe, shown, legacy, shownLegacy>>

\* the catch block calls setError
OnMessageSurfacesParseError(raw, lag) ==
    /\ es = "open"
    /\ IF isMounted /\ raw.kind = "object"
       THEN loadData(raw.obj, FALSE, lag)
       ELSE /\ lag = 0
            /\ error' = IF isMounted THEN "Failed to parse SSE message" ELSE error
            /\ UNCHANGED <<currentData, history, lastFetched, useMockData,
                           lastHistoryAddRef, now, fromMock, appendTimes>>
    /\ lastRaw' = raw
    /\ UNCHANGED <<loading, isMounted, es, probe, shown, legacy, shownLegacy>>

\* eventSource.onmessage: JSON.parse(event.data), then loadData(data, false);
\* a SyntaxError of JSON.parse and the TypeError of reading null.rpm are caught
OnMessage(raw, lag) ==
    /\ es = "open"
    /\ IF isMounted /\ raw.kind = "object"
       THEN loadData(raw.obj, FALSE, lag)
       ELSE /\ lag = 0
            /\ UNCHANGED <<currentData, history, error, lastFetched, useMockData,
                           lastHistoryAddRef, now, fromMock, appendTimes>>
    /\ lastRaw' = raw
    /\ UNCHANGED <<loading, isMounted, es, probe, shown, legacy, shownLegacy>>

\* onerror also loads the fallback reading
OnErrorLoadsFallback ==
    /\ es \in {"connecting", "open"}
    /\ IF isMounted
       THEN /\ es' = "closed" /\ error' = ConnectionLost /\ loading' = FALSE
            /\ currentData' = <<withSpeed(MOCK_DATA)>>
       ELSE es' = "connecting" /\ UNCHANGED <<error, loading, currentData>>
    /\ UNCHANGED <<history, lastFetched, useMockData, isMounted,
                   lastHistoryAddRef, now, fromMock, appendTimes, lastRaw, probe, shown, legacy, shownLegacy>>

\* eventSource.onerror
OnError ==
    /\ es \in {"connecting", "open"}
    /\ IF isMounted
       THEN es' = "closed" /\ error' = ConnectionLost /\ loading' = FALSE
       ELSE es' = "connecting" /\ UNCHANGED <<error, loading>>
    /\ UNCHANGED <<currentData, history, lastFetched, useMockData, isMounted,
                   lastHistoryAddRef, now, fromMock, appendTimes, lastRaw, probe, shown, legacy, shownLegacy>>

\* the error screen is what the component renders
ErrorScreen ==
    error # NoError /\ currentData = <<>> /\ Len(history) = 0 /\ ~useMockData

\* the Use Demo Data button of the error screen
UseDemoData(lag) ==
    /\ isMounted
    /\ ErrorScreen
    /\ loading' = FALSE
    /\ loadData(MOCK_DATA, TRUE, lag)
    /\ UNCHANGED <<isMounted, es, lastRaw, probe, shown, legacy, shownLegacy>>

\* the cleanup without eventSourceRef.current.close()
cleanupNoClose(mounted, source) == <<FALSE, source>>

\* the effect's cleanup, on the flag and the EventSource: isMounted = false,
\* and close() when eventSourceRef.current is set
cleanup(mounted, source) ==
    <<FALSE, IF source = "none" THEN "none" ELSE "closed">>

\* the component unmounts: React runs the cleanup
Unmount ==
    /\ isMounted
    /\ isMounted' = cleanup(isMounted, es)[1]
    /\ es' = cleanup(isMounted, es)[2]
    /\ UNCHANGED <<currentData, history, loading, error, lastFetched, useMockData,
                   lastHistoryAddRef, now, fromMock, appendTimes, lastRaw, probe, shown, legacy, shownLegacy>>

\* time passes
Tick(d) ==
    /\ es # "none" \/ ~loading
    /\ now + d <= StartClock + MaxElapsed
    /\ now' = now + d
    /\ UNCHANGED <<currentData, history, loading, error, lastFetched, useMockData,
                   lastHistoryAddRef, isMounted, es, fromMock, appendTimes, lastRaw, probe, shown, legacy, shownLegacy>>

Next ==
    \/ Mount
    \/ ConnectFail
    \/ OnOpen
    \/ \E raw \in RawMessages, lag \in 0..RenderLag : OnMessage(raw, lag)
    \/ OnError
    \/ \E lag \in 0..RenderLag : UseDemoData(lag)
    \/ Unmount
    \/ \E d \in Steps : Tick(d)

Spec == Init /\ [][Next]_vars

-----------------------------------------------------------------------------
(* The fetch-based Dashboard: one fetch when it mounts *)

LegacyEmpty ==
    [fsr |-> Undefined, eyeClose |-> Undefined, speed |-> Undefined,
     serverTime |-> Undefined]

LegacyPayloads ==
    {LegacyEmpty,
     [LegacyEmpty EXCEPT !.speed = Num(125), !.eyeClose = Bool(FALSE), !.fsr = Num(10)]}

\* the updater fetchDashboardData hands to setHistory
legacyAppend(prev, data, ts) ==
    LET updated == Append(prev, HistoricalEntry(ts, data))
    IN IF Len(updated) > MAX_HISTORY_ENTRIES THEN Tail(updated) ELSE updated

\* fetchDashboardData: the response was ok and its body parsed
LegacyFetched(data) ==
    /\ legacy.pc = "fetching"
    /\ legacy' = [currentData |-> <<data>>,
                  history |-> legacyAppend(legacy.history, data, now),
                  loading |-> FALSE,
                  error |-> NoError,
                  lastFetched |-> toLocaleTimeString(now),
                  pc |-> "done"]
    /\ UNCHANGED <<session, probe, shown, shownLegacy>>

\* fetchDashboardData: fetch rejected, the status was not ok, or the body did not parse
LegacyFetchFailed ==
    /\ legacy.pc = "fetching"
    /\ legacy' = [legacy EXCEPT !.error = "Failed to fetch data",
                                !.loading = FALSE, !.pc = "done"]
    /\ UNCHANGED <<session, probe, shown, shownLegacy>>

\* the status prop of its Vehicle Speed DataCard
LegacySpeedStatus(speed) ==
    IF speed.t = "number" /\ speed.n > 120 THEN "warning"
    ELSE IF speed.t = "number" /\ speed.n > 150 THEN "danger"
    ELSE "safe"

-----------------------------------------------------------------------------
(* A steady stream: one reading is recorded in every history interval *)

SteadyTick ==
    /\ lastHistoryAddRef = now
    /\ now < StartClock + SteadyTicks * HISTORY_ADD_INTERVAL
    /\ now' = now + HISTORY_ADD_INTERVAL
    /\ UNCHANGED <<currentData, history, loading, error, lastFetched, useMockData,
                   lastHistoryAddRef, isMounted, es, fromMock, appendTimes, lastRaw,
                   probe, shown, legacy, shownLegacy>>

SteadyNext ==
    \/ Mount
    \/ ConnectFail
    \/ OnOpen
    \/ OnMessage(JsonObject(SteadyPayload), 0)
    \/ OnError
    \/ UseDemoData(0)
    \/ Unmount
    \/ SteadyTick
    \/ \E data \in LegacyPayloads : LegacyFetched(data)
    \/ LegacyFetchFailed

SteadySpec == Init /\ [][SteadyNext]_vars

-----------------------------------------------------------------------------
(* What the header and the Vehicle Speed card show *)

\* the last two branches swapped
statusIndicatorSwapped ==
    IF error # NoError /\ ~useMockData THEN "Stream Offline"
    ELSE IF useMockData THEN "Streaming Live"
    ELSE "Demo Mode"

\* the status indicator of the header
statusIndicator ==
    IF error # NoError /\ ~useMockData THEN "Stream Offline"
    ELSE IF useMockData THEN "Demo Mode"
    ELSE "Streaming Live"

SpeedStatusInclusive(speed) ==
    IF speed.t = "number" /\ speed.n >= 120 THEN "danger"
    ELSE IF speed.t = "number" /\ speed.n >= 80 THEN "warning"
    ELSE "safe"

\* the status prop of the Vehicle Speed DataCard
SpeedStatus(speed) ==
    IF speed.t = "number" /\ speed.n > 120 THEN "danger"
    ELSE IF speed.t = "number" /\ speed.n > 80 THEN "warning"
    ELSE "safe"

-----------------------------------------------------------------------------
(* The Vehicle Speed card on its own, over a range of speeds *)

SpeedInputs == {Null, Undefined} \cup {Num(n) : n \in (0 - MaxSpeed)..MaxSpeed}

CardInit ==
    /\ InitSession
    /\ InitLegacy
    /\ probe \in SpeedInputs
    /\ shown = "none"
    /\ shownLegacy = "none"

RenderSpeedCard ==
    /\ shown = "none"
    /\ shown' = SpeedStatus(probe)
    /\ UNCHANGED <<session, probe, legacy, shownLegacy>>

RenderLegacySpeedCard ==
    /\ shownLegacy = "none"
    /\ shownLegacy' = LegacySpeedStatus(probe)
    /\ UNCHANGED <<session, probe, legacy, shown>>

CardNext == RenderSpeedCard \/ RenderLegacySpeedCard

CardSpec == CardInit /\ [][CardNext]_vars

-----------------------------------------------------------------------------
(* The statuses and the fallback reading the documentation speaks of *)

\* README, Dashboard Status Indicators, against the header's three labels
Status ==
    CASE statusIndicator = "Stream Offline" -> "Offline"
      [] statusIndicator = "Demo Mode" -> "Fallback"
      [] statusIndicator = "Streaming Live" -> "Live"

\* README, Empty Response Handling: 0 km/h, Alert, Active, Normal
SafeDefaults ==
    [EmptyObject EXCEPT !.speed = Num(0), !.eyeDrowsy = Bool(FALSE),
                        !.steerInactive = Bool(FALSE),
                        !.rolloverDetected = Bool(FALSE)]

\* the fallback reading: the documented safe defaults, or the loaded MOCK_DATA
IsFallbackReading(cur) ==
    cur = <<SafeDefaults>> \/ cur = <<withSpeed(MOCK_DATA)>>

\* at least one tracked field is neither null nor absent
IsValidData(p) ==
    \E v \in {p.speed, p.rpm, p.eyeDrowsy, p.steerInactive, p.rolloverDetected} :
        ~IsNullish(v)

\* onmessage handles the JSON object p
Handles(p) ==
    /\ isMounted
    /\ lastRaw' = JsonObject(p)
    /\ \E lag \in 0..RenderLag : OnMessage(JsonObject(p), lag)

SpeedTier == SpeedStatus(currentData[1].speed)

-----------------------------------------------------------------------------
(* C1: in every reachable state the history holds at most 50 entries. *)
C1_HistoryCapped ==
    /\ Len(history) <= MAX_HISTORY_ENTRIES
    /\ Len(legacy.history) <= MAX_HISTORY_ENTRIES

\* the 51st and later appends happened, and the history is full
C1_Witness ==
    /\ Len(appendTimes) > MAX_HISTORY_ENTRIES + 1
    /\ Len(history) = MAX_HISTORY_ENTRIES
    /\ history[1].timestamp = appendTimes[Len(appendTimes) - MAX_HISTORY_ENTRIES + 1]

(* C2: a payload whose tracked fields are all null or absent, {} included,   *)
(* makes onMessage set the status to Fallback, set the current Reading to    *)
(* the fallback defaults and leave the history unchanged.                     *)
C2_EmptyPayloadFallsBack ==
    [][\A p \in Payloads :
          (~IsValidData(p) /\ Handles(p))
              => /\ Status' = "Fallback"
                 /\ IsFallbackReading(currentData')
                 /\ history' = history]_vars

(* C3: no history entry holds a fallback-derived (mock/default) Reading:     *)
(* every entry was produced from a payload received on the live stream.      *)
C3_NoFallbackInHistory ==
    \A i \in 1..Len(history) : ~fromMock[i]

(* C4: two history appends never happen less than 3000 ms apart, whatever    *)
(* the frequency of the messages.                                            *)
C4_AppendsRateLimited ==
    \A i \in 1..(Len(appendTimes) - 1) :
        appendTimes[i + 1] - appendTimes[i] >= HISTORY_ADD_INTERVAL

\* two appends, and a later message that was loaded without an append
C4_Witness ==
    /\ Len(appendTimes) >= 2
    /\ lastRaw.kind = "object"
    /\ lastFetched.sec * 1000 > lastHistoryAddRef
    /\ now - lastHistoryAddRef < HISTORY_ADD_INTERVAL

-----------------------------------------------------------------------------
(* C5: the speed onMessage stores *)

Abs(x) == IF x < 0 THEN 0 - x ELSE x

\* s is an integer nearest to v * 0.0158
IsRoundedKmh(s, v) == 2 * Abs(10000 * s - 158 * v) <= 10000

RECURSIVE Pow10(_)
Pow10(k) == IF k = 0 THEN 1 ELSE 10 * Pow10(k - 1)

\* the number written by a string of digits
NumberOf(s) ==
    LET RECURSIVE Sum(_)
        Sum(i) == IF i > Len(s) THEN 0
                  ELSE DigitVal(s[i]) * Pow10(Len(s) - i) + Sum(i + 1)
    IN Sum(1)

\* a numeric string: one or more digits and nothing else
IsNumericString(s) == s # <<>> /\ \A i \in 1..Len(s) : s[i] \in Digits

\* the number of leading digits of s
LeadingDigits(s) ==
    CHOOSE k \in 0..Len(s) :
        /\ \A i \in 1..k : s[i] \in Digits
        /\ k = Len(s) \/ s[k + 1] \notin Digits

(* C5 as claimed: for any valid payload the stored speed is round(rpm x      *)
(* 0.0158) when rpm is a number or a numeric string and null when rpm is     *)
(* absent, null or non-numeric; rpm "2500" gives 40 and the tier safe.       *)
C5_SpeedAsClaimed ==
    [][\A p \in Payloads :
          (IsValidData(p) /\ Handles(p))
              => LET speed == currentData'[1].speed
                 IN /\ p.rpm.t = "number"
                        => speed.t = "number" /\ IsRoundedKmh(speed.n, p.rpm.n)
                    /\ (p.rpm.t = "string" /\ IsNumericString(p.rpm.s))
                        => speed.t = "number" /\ IsRoundedKmh(speed.n, NumberOf(p.rpm.s))
                    /\ (IsNullish(p.rpm) \/ (p.rpm.t = "string" /\ ~IsNumericString(p.rpm.s)))
                        => speed = Null
                    /\ p.rpm = Str(<<"2", "5", "0", "0">>)
                        => speed = Num(40) /\ SpeedStatus(speed) = "safe"]_vars

(* C5 as amended: for any valid payload whose rpm is a number, a string,     *)
(* null or absent, the stored speed is round(v x 0.0158), where v is rpm     *)
(* when it is a number and the number parseFloat reads from the start of     *)
(* the string when it is a string ("2500" and "2500rpm" both give 40), and   *)
(* is null when rpm is absent, null or a string that does not start with a   *)
(* number; rpm "2500" gives 40 and the tier safe.  The strings of the model  *)
(* are digits and letters, so the number read is the one the leading digits  *)
(* write.                                                                    *)
C5_SpeedFromLeadingNumber ==
    [][\A p \in Payloads :
          (IsValidData(p) /\ Handles(p))
              => LET speed == currentData'[1].speed
                     k == LeadingDigits(p.rpm.s)
                 IN /\ p.rpm.t = "number"
                        => speed.t = "number" /\ IsRoundedKmh(speed.n, p.rpm.n)
                    /\ (p.rpm.t = "string" /\ k > 0)
                        => /\ speed.t = "number"
                           /\ IsRoundedKmh(speed.n, NumberOf(SubSeq(p.rpm.s, 1, k)))
                    /\ (IsNullish(p.rpm) \/ (p.rpm.t = "string" /\ k = 0))
                        => speed = Null
                    /\ p.rpm = Str(<<"2", "5", "0", "0">>)
                        => speed = Num(40) /\ SpeedStatus(speed) = "safe"]_vars

\* onmessage has just stored the speed of the payload whose rpm is "2500rpm"
C5_Witness ==
    /\ lastRaw = JsonObject(P_rpmSuffix)
    /\ currentData = <<[P_rpmSuffix EXCEPT !.speed = Num(40)]>>
    /\ lastFetched = toLocaleTimeString(now)

(* C6: two payloads that differ only in their speed field give the same      *)
(* current Reading and the same history entry: the speed on the wire never   *)
(* reaches the state.                                                         *)
C6_WireSpeedIgnored ==
    [][\A p, q \in Payloads :
          (p # q /\ [p EXCEPT !.speed = q.speed] = q /\ Handles(p))
              => /\ currentData' = <<withSpeed(q)>>
                 /\ history' \in {history, addToHistory(history, withSpeed(q), now')}]_vars

\* a payload carrying speed 125 and rpm "2500" was handled and recorded
C6_Witness ==
    /\ lastRaw = JsonObject(P_rpmStringSpeed)
    /\ currentData = <<[P_rpmString EXCEPT !.speed = Num(40)]>>
    /\ Len(history) > 0
    /\ history[Len(history)].data = currentData[1]
    /\ lastHistoryAddRef = appendTimes[Len(appendTimes)]
    /\ now - lastHistoryAddRef <= RenderLag

(* C7 as claimed: after onMessage receives {"speed": 125} (no rpm), the      *)
(* speed tier shown for the current Reading is danger.                        *)
C7_WireSpeedDanger ==
    [][Handles(P_speedOnly) => SpeedTier' = "danger"]_vars

(* C7 as amended: after onMessage receives {"speed": 125} (no rpm), the      *)
(* current Reading's speed is null and the speed tier shown is safe.          *)
C7_WireSpeedDropped ==
    [][Handles(P_speedOnly)
          => currentData'[1].speed = Null /\ SpeedTier' = "safe"]_vars

\* onmessage has just handled {"speed": 125}
C7_Witness ==
    /\ lastRaw = JsonObject(P_speedOnly)
    /\ currentData = <<[EmptyObject EXCEPT !.speed = Null]>>
    /\ lastFetched = toLocaleTimeString(now)

(* C8: the speed tier is safe when speed <= 80, warning when 80 < speed <=   *)
(* 120, danger when speed > 120; every numeric speed has exactly one tier.   *)
(* Stated of the Vehicle Speed card of both Dashboard components.            *)
C8_SpeedTiers ==
    \A card \in {shown, shownLegacy} :
        (card # "none" /\ probe.t = "number") =>
            /\ card \in {"safe", "warning", "danger"}
            /\ card = "safe" <=> probe.n <= 80
            /\ card = "warning" <=> (80 < probe.n /\ probe.n <= 120)
            /\ card = "danger" <=> probe.n > 120

(* C9: if start() has been called and neither onOpen nor onMessage occurs    *)
(* within 5000 ms, the status becomes Fallback and the current Reading is    *)
(* the fallback defaults.                                                     *)
C9_TimeoutFallsBack ==
    (isMounted /\ es = "connecting" /\ now - StartClock >= CONNECTION_TIMEOUT)
        => Status = "Fallback" /\ IsFallbackReading(currentData)

(* C10: onError closes the subscription, sets the status to Offline when no  *)
(* successful open preceded it and to Fallback otherwise, and sets the       *)
(* current Reading to the fallback defaults, so that after an error the      *)
(* current Reading is never absent.                                           *)
C10_ErrorFallsBack ==
    [][(isMounted /\ OnError)
          => /\ es' = "closed"
             /\ Status' = IF es = "open" THEN "Fallback" ELSE "Offline"
             /\ IsFallbackReading(currentData')
             /\ currentData' # <<>>]_vars

\* a step in which a message arrives that is not the one handled last
Arrives(raw) == lastRaw' = raw /\ lastRaw # raw

\* C11: a message that fails to parse as JSON changes nothing: the current
\* reading, the history, the status, the last-update time and the time of the
\* last history write are what they were before the message.
C11_ParseFailureChangesNothing ==
    [][Arrives(Malformed) =>
          /\ UNCHANGED <<currentData, history, lastFetched, lastHistoryAddRef>>
          /\ Status' = Status
          /\ UNCHANGED <<error, useMockData, loading>>]_vars

\* a malformed message was the last one handled, with a reading on display
C11_Witness ==
    /\ lastRaw = Malformed
    /\ isMounted /\ es = "open"
    /\ currentData # <<>> /\ Len(history) > 0

\* C12: after onmessage has handled a valid message the status is Live,
\* whatever it was before.
C12_ValidMessageGoesLive ==
    [][\A p \in Payloads : (IsValidData(p) /\ Handles(p)) => Status' = "Live"]_vars

\* a valid message was the last one handled and the reading on display is its
C12_Witness ==
    /\ isMounted /\ lastRaw.kind = "object" /\ IsValidData(lastRaw.obj)
    /\ currentData = <<withSpeed(lastRaw.obj)>>
    /\ Status = "Live" /\ ~useMockData /\ error = NoError

\* C13: whenever onopen fires, the status right after it is Live.
C13_OpenGoesLive ==
    [][(es = "connecting" /\ es' = "open") => Status' = "Live"]_vars

\* the stream has just opened: no message yet
C13_Witness ==
    /\ isMounted /\ es = "open" /\ ~loading
    /\ lastRaw = NoMessage /\ currentData = <<>>
    /\ Status = "Live"

\* the cleanup has run
Stopped == ~isMounted /\ (es # "none" \/ ~loading)

\* C14: stop() closes the active subscription and is idempotent (a second
\* stop() finds nothing left to change), and once stopped no open, message or
\* error changes the current reading, the history or the status.
C14_StopIsFinal ==
    [][/\ (isMounted /\ ~isMounted') => (es' = "closed" \/ (es = "none" /\ es' = "none"))
       /\ Stopped =>
             /\ cleanup(isMounted, es) = <<isMounted, es>>
             /\ Status' = Status
             /\ UNCHANGED <<currentData, history, error, useMockData, loading,
                            lastFetched, lastHistoryAddRef, lastRaw, isMounted, es>>]_vars

\* stopped with a reading on display, and time has passed since
C14_Witness ==
    /\ Stopped /\ es = "closed"
    /\ currentData # <<>> /\ Len(history) > 0
    /\ now - lastHistoryAddRef >= HISTORY_ADD_INTERVAL

\* C15: after a connection error the session recovers on its own: the
\* subscription of a mounted dashboard that has seen an error is still one
\* that can open or deliver a message, so that the status can return to Live.
C15_RecoversAfterError ==
    (isMounted /\ error = ConnectionLost) => es \in {"connecting", "open"}

\* C16: the history is an append-only FIFO: an append puts the new entry
\* last, removes the first entry exactly when the length was 50 already, and
\* leaves every other entry and their order as they were; no other step
\* changes the history.
C16_AppendOnlyFifo ==
    [][IF appendTimes' # appendTimes
       THEN LET e == [timestamp |-> now', data |-> currentData'[1]]
            IN IF Len(history) < MAX_HISTORY_ENTRIES
               THEN history' = Append(history, e)
               ELSE history' = Append(Tail(history), e)
       ELSE history' = history]_vars

\* more than 50 entries were appended: the 50 kept are the 50 latest, in order
C16_Witness ==
    /\ Len(appendTimes) > MAX_HISTORY_ENTRIES + 1
    /\ Len(history) = MAX_HISTORY_ENTRIES
    /\ history[MAX_HISTORY_ENTRIES].timestamp = lastHistoryAddRef
    /\ history[1].timestamp =
          lastHistoryAddRef - (MAX_HISTORY_ENTRIES - 1) * HISTORY_ADD_INTERVAL

\* the Date.now() that loadData compared and stored when it appended history[i]
StoredNow(i) == appendTimes[i + Len(appendTimes) - Len(history)]

\* C17 as claimed: each entry's timestamp is the instant that was compared with
\* and stored in lastHistoryAddRef, so the timestamps of consecutive entries
\* differ by at least 3000 ms.
C17_TimestampIsStoredNow ==
    /\ \A i \in 1..Len(history) : history[i].timestamp = StoredNow(i)
    /\ \A i \in 1..(Len(history) - 1) :
          history[i + 1].timestamp - history[i].timestamp >= HISTORY_ADD_INTERVAL

\* C17: each entry's timestamp is read by the updater's own Date.now(), at or
\* after the instant loadData compared and stored; the stored instants of
\* consecutive entries differ by at least 3000 ms, and their timestamps by at
\* least 3000 ms less the delay of the earlier entry's timestamp.
C17_TimestampNotBeforeStoredNow ==
    /\ \A i \in 1..Len(history) : history[i].timestamp >= StoredNow(i)
    /\ Len(history) > 0 => StoredNow(Len(history)) = lastHistoryAddRef
    /\ \A i \in 1..(Len(history) - 1) :
          /\ StoredNow(i + 1) - StoredNow(i) >= HISTORY_ADD_INTERVAL
          /\ history[i + 1].timestamp - history[i].timestamp
                >= HISTORY_ADD_INTERVAL - (history[i].timestamp - StoredNow(i))

\* two consecutive entries less than 3000 ms apart: the first one's timestamp
\* was read after the instant that was stored
C17_Witness ==
    /\ Len(history) = 2
    /\ history[1].timestamp > StoredNow(1)
    /\ history[2].timestamp - history[1].timestamp < HISTORY_ADD_INTERVAL

StoredReadings ==
    {currentData[i] : i \in 1..Len(currentData)}
        \cup {history[i].data : i \in 1..Len(history)}

\* the speed of the stored reading d is round(rpm x 0.0158) of its rpm when
\* that is a number or a numeric string, and null otherwise
HasSpeedOfNumericRpm(d) ==
    /\ d.rpm.t = "number"
          => d.speed.t = "number" /\ IsRoundedKmh(d.speed.n, d.rpm.n)
    /\ (d.rpm.t = "string" /\ IsNumericString(d.rpm.s))
          => d.speed.t = "number" /\ IsRoundedKmh(d.speed.n, NumberOf(d.rpm.s))
    /\ (IsNullish(d.rpm) \/ (d.rpm.t = "string" /\ ~IsNumericString(d.rpm.s)))
          => d.speed = Null

\* the same, with the number parseFloat reads from the start of a string
HasSpeedOfLeadingNumber(d) ==
    LET k == LeadingDigits(d.rpm.s)
    IN /\ d.rpm.t = "number"
             => d.speed.t = "number" /\ IsRoundedKmh(d.speed.n, d.rpm.n)
       /\ (d.rpm.t = "string" /\ k > 0)
             => /\ d.speed.t = "number"
                /\ IsRoundedKmh(d.speed.n, NumberOf(SubSeq(d.rpm.s, 1, k)))
       /\ (IsNullish(d.rpm) \/ (d.rpm.t = "string" /\ k = 0))
             => d.speed = Null

\* C20 as claimed: the reading on display and every history entry have the
\* speed derived from their own rpm, null when that rpm is absent or
\* non-numeric, and a non-empty history implies a reading on display.
C20_StoredSpeedAsClaimed ==
    /\ \A d \in StoredReadings : HasSpeedOfNumericRpm(d)
    /\ Len(history) > 0 => currentData # <<>>

\* C20 as amended: the reading on display and every history entry have the
\* speed derived from their own rpm: round(v x 0.0158), where v is the rpm
\* when it is a number and the number parseFloat reads from the start of it
\* when it is a string, and null when the rpm is absent, null or a string that
\* does not start with a number; a non-empty history implies a reading on
\* display.
C20_StoredSpeedFromOwnRpm ==
    /\ \A d \in StoredReadings : HasSpeedOfLeadingNumber(d)
    /\ Len(history) > 0 => currentData # <<>>

\* the history holds the reading whose rpm is "2500rpm" with the speed 40,
\* then one more, and a third reading is on display
C20_Witness ==
    /\ Len(history) = 2
    /\ history[1].data = [P_rpmSuffix EXCEPT !.speed = Num(40)]
    /\ currentData # <<>> /\ currentData[1] # history[2].data
    /\ currentData[1].speed = Null

====
